---- MODULE Spec2Model ----
(***************************************************************************)
(* State-machine model of the CV-Alchemist backend (src/main.py): the      *)
(* process globals analysis_cache and mail_config, the temporary files the *)
(* handlers create, the handlers suspended at an await or streaming a file, *)
(* and the response of the request that completed last.                    *)
(*                                                                         *)
(* Extracted text is kept run-length encoded (a sequence of <<char, n>>    *)
(* runs, adjacent runs of different characters, n >= 1) so that the real   *)
(* slice lengths 2000, 8000 and 100 are exercised.  LLM output is a        *)
(* sequence of lexemes, a file name a sequence of code points.             *)
(***************************************************************************)
EXTENDS Integers, Sequences, FiniteSets, TLC

\* ---------------------------------------------------------------- bounds
MaxRequests == 3
MaxPending == 2
MaxLen == 4
MaxFence == 6

\* ------------------------------------------------------ program constants
PromptLen == 8000
PreviewLen == 2000
PdfLineLen == 100
\* tempfile: "tmp" and eight random characters; the file system: 255 bytes
TempPrefixLen == 11
NameMax == 255

\* ------------------------------------------------------------ text (RLE)
\* the characters str.strip() removes (str.isspace): the ASCII ones by their
\* escapes, the others by code point
Whitespace ==
    {" ", "\t", "\n", "\r", "\f", "U+000B", "U+001C", "U+001D", "U+001E",
     "U+001F", "U+0085", "U+00A0", "U+1680", "U+2000", "U+2001", "U+2002",
     "U+2003", "U+2004", "U+2005", "U+2006", "U+2007", "U+2008", "U+2009",
     "U+200A", "U+2028", "U+2029", "U+202F", "U+205F", "U+3000"}

RECURSIVE TextLen(_)
TextLen(t) == IF t = <<>> THEN 0 ELSE t[1][2] + TextLen(Tail(t))

\* t[:n]
RECURSIVE Take(_, _)
Take(t, n) ==
    IF t = <<>> \/ n <= 0 THEN <<>>
    ELSE IF t[1][2] >= n THEN << <<t[1][1], n>> >>
    ELSE <<t[1]>> \o Take(Tail(t), n - t[1][2])

\* a + b
Concat(a, b) ==
    IF a = <<>> THEN b
    ELSE IF b = <<>> THEN a
    ELSE IF a[Len(a)][1] = b[1][1]
         THEN SubSeq(a, 1, Len(a) - 1)
              \o << <<b[1][1], a[Len(a)][2] + b[1][2]>> >>
              \o Tail(b)
         ELSE a \o b

\* "\n".join(paragraphs)
RECURSIVE JoinLines(_)
JoinLines(ps) ==
    IF ps = <<>> THEN <<>>
    ELSE IF Len(ps) = 1 THEN ps[1]
    ELSE Concat(Concat(ps[1], << <<"\n", 1>> >>), JoinLines(Tail(ps)))

\* text.strip()
RECURSIVE LStrip(_)
LStrip(t) ==
    IF t = <<>> THEN <<>>
    ELSE IF t[1][1] \in Whitespace THEN LStrip(Tail(t)) ELSE t

RECURSIVE RStrip(_)
RStrip(t) ==
    IF t = <<>> THEN <<>>
    ELSE IF t[Len(t)][1] \in Whitespace THEN RStrip(SubSeq(t, 1, Len(t) - 1))
    ELSE t

Strip(t) == RStrip(LStrip(t))

\* text.split('\n')
RECURSIVE SplitLines(_, _)
SplitLines(t, cur) ==
    IF t = <<>> THEN <<cur>>
    ELSE IF t[1][1] = "\n"
         THEN <<cur>> \o [i \in 1..(t[1][2] - 1) |-> <<>>]
              \o SplitLines(Tail(t), <<>>)
         ELSE SplitLines(Tail(t), Concat(cur, <<t[1]>>))

\* ------------------------------------------------------------- filenames
\* a file name is a sequence of Unicode code points; Ord gives the code point
\* of the characters the inputs below are written with
UpperCase ==
    <<"A", "B", "C", "D", "E", "F", "G", "H", "I", "J", "K", "L", "M",
      "N", "O", "P", "Q", "R", "S", "T", "U", "V", "W", "X", "Y", "Z">>

LowerCase ==
    <<"a", "b", "c", "d", "e", "f", "g", "h", "i", "j", "k", "l", "m",
      "n", "o", "p", "q", "r", "s", "t", "u", "v", "w", "x", "y", "z">>

Ord(ch) ==
    CASE ch = "." -> 46
      [] ch = "/" -> 47
      [] \E i \in 1..26 : UpperCase[i] = ch ->
            64 + (CHOOSE i \in 1..26 : UpperCase[i] = ch)
      [] \E i \in 1..26 : LowerCase[i] = ch ->
            96 + (CHOOSE i \in 1..26 : LowerCase[i] = ch)

Codes(s) == [i \in 1..Len(s) |-> Ord(s[i])]

\* str.lower() on one code point, as the Unicode database of the interpreter
\* has it: <<lo, hi, step, delta>> says that lo, lo + step, ..., hi each
\* lower to themselves plus delta; every other code point lowers to itself
\* (U+0130, which lowers to two code points, is apart)
LowerRanges ==
    {<<65, 90, 1, 32>>, <<192, 214, 1, 32>>, <<216, 222, 1, 32>>, <<256,
     302, 2, 1>>, <<306, 310, 2, 1>>, <<313, 327, 2, 1>>, <<330, 374, 2,
     1>>, <<376, 376, 1, -121>>, <<377, 381, 2, 1>>, <<385, 385, 1, 210>>,
     <<386, 388, 2, 1>>, <<390, 390, 1, 206>>, <<391, 391, 1, 1>>, <<393,
     394, 1, 205>>, <<395, 395, 1, 1>>, <<398, 398, 1, 79>>, <<399, 399,
     1, 202>>, <<400, 400, 1, 203>>, <<401, 401, 1, 1>>, <<403, 403, 1,
     205>>, <<404, 404, 1, 207>>, <<406, 406, 1, 211>>, <<407, 407, 1,
     209>>, <<408, 408, 1, 1>>, <<412, 412, 1, 211>>, <<413, 413, 1,
     213>>, <<415, 415, 1, 214>>, <<416, 420, 2, 1>>, <<422, 422, 1,
     218>>, <<423, 423, 1, 1>>, <<425, 425, 1, 218>>, <<428, 428, 1, 1>>,
     <<430, 430, 1, 218>>, <<431, 431, 1, 1>>, <<433, 434, 1, 217>>,
     <<435, 437, 2, 1>>, <<439, 439, 1, 219>>, <<440, 440, 1, 1>>, <<444,
     444, 1, 1>>, <<452, 452, 1, 2>>, <<453, 453, 1, 1>>, <<455, 455, 1,
     2>>, <<456, 456, 1, 1>>, <<458, 458, 1, 2>>, <<459, 475, 2, 1>>,
     <<478, 494, 2, 1>>, <<497, 497, 1, 2>>, <<498, 500, 2, 1>>, <<502,
     502, 1, -97>>, <<503, 503, 1, -56>>, <<504, 542, 2, 1>>, <<544, 544,
     1, -130>>, <<546, 562, 2, 1>>, <<570, 570, 1, 10795>>, <<571, 571, 1,
     1>>, <<573, 573, 1, -163>>, <<574, 574, 1, 10792>>, <<577, 577, 1,
     1>>, <<579, 579, 1, -195>>, <<580, 580, 1, 69>>, <<581, 581, 1, 71>>,
     <<582, 590, 2, 1>>, <<880, 882, 2, 1>>, <<886, 886, 1, 1>>, <<895,
     895, 1, 116>>, <<902, 902, 1, 38>>, <<904, 906, 1, 37>>, <<908, 908,
     1, 64>>, <<910, 911, 1, 63>>, <<913, 929, 1, 32>>, <<931, 939, 1,
     32>>, <<975, 975, 1, 8>>, <<984, 1006, 2, 1>>, <<1012, 1012, 1,
     -60>>, <<1015, 1015, 1, 1>>, <<1017, 1017, 1, -7>>, <<1018, 1018, 1,
     1>>, <<1021, 1023, 1, -130>>, <<1024, 1039, 1, 80>>, <<1040, 1071, 1,
     32>>, <<1120, 1152, 2, 1>>, <<1162, 1214, 2, 1>>, <<1216, 1216, 1,
     15>>, <<1217, 1229, 2, 1>>, <<1232, 1326, 2, 1>>, <<1329, 1366, 1,
     48>>, <<4256, 4293, 1, 7264>>, <<4295, 4295, 1, 7264>>, <<4301, 4301,
     1, 7264>>, <<5024, 5103, 1, 38864>>, <<5104, 5109, 1, 8>>, <<7312,
     7354, 1, -3008>>, <<7357, 7359, 1, -3008>>, <<7680, 7828, 2, 1>>,
     <<7838, 7838, 1, -7615>>, <<7840, 7934, 2, 1>>, <<7944, 7951, 1,
     -8>>, <<7960, 7965, 1, -8>>, <<7976, 7983, 1, -8>>, <<7992, 7999, 1,
     -8>>, <<8008, 8013, 1, -8>>, <<8025, 8031, 2, -8>>, <<8040, 8047, 1,
     -8>>, <<8072, 8079, 1, -8>>, <<8088, 8095, 1, -8>>, <<8104, 8111, 1,
     -8>>, <<8120, 8121, 1, -8>>, <<8122, 8123, 1, -74>>, <<8124, 8124, 1,
     -9>>, <<8136, 8139, 1, -86>>, <<8140, 8140, 1, -9>>, <<8152, 8153, 1,
     -8>>, <<8154, 8155, 1, -100>>, <<8168, 8169, 1, -8>>, <<8170, 8171,
     1, -112>>, <<8172, 8172, 1, -7>>, <<8184, 8185, 1, -128>>, <<8186,
     8187, 1, -126>>, <<8188, 8188, 1, -9>>, <<8486, 8486, 1, -7517>>,
     <<8490, 8490, 1, -8383>>, <<8491, 8491, 1, -8262>>, <<8498, 8498, 1,
     28>>, <<8544, 8559, 1, 16>>, <<8579, 8579, 1, 1>>, <<9398, 9423, 1,
     26>>, <<11264, 11311, 1, 48>>, <<11360, 11360, 1, 1>>, <<11362,
     11362, 1, -10743>>, <<11363, 11363, 1, -3814>>, <<11364, 11364, 1,
     -10727>>, <<11367, 11371, 2, 1>>, <<11373, 11373, 1, -10780>>,
     <<11374, 11374, 1, -10749>>, <<11375, 11375, 1, -10783>>, <<11376,
     11376, 1, -10782>>, <<11378, 11378, 1, 1>>, <<11381, 11381, 1, 1>>,
     <<11390, 11391, 1, -10815>>, <<11392, 11490, 2, 1>>, <<11499, 11501,
     2, 1>>, <<11506, 11506, 1, 1>>, <<42560, 42604, 2, 1>>, <<42624,
     42650, 2, 1>>, <<42786, 42798, 2, 1>>, <<42802, 42862, 2, 1>>,
     <<42873, 42875, 2, 1>>, <<42877, 42877, 1, -35332>>, <<42878, 42886,
     2, 1>>, <<42891, 42891, 1, 1>>, <<42893, 42893, 1, -42280>>, <<42896,
     42898, 2, 1>>, <<42902, 42920, 2, 1>>, <<42922, 42922, 1, -42308>>,
     <<42923, 42923, 1, -42319>>, <<42924, 42924, 1, -42315>>, <<42925,
     42925, 1, -42305>>, <<42926, 42926, 1, -42308>>, <<42928, 42928, 1,
     -42258>>, <<42929, 42929, 1, -42282>>, <<42930, 42930, 1, -42261>>,
     <<42931, 42931, 1, 928>>, <<42932, 42946, 2, 1>>, <<42948, 42948, 1,
     -48>>, <<42949, 42949, 1, -42307>>, <<42950, 42950, 1, -35384>>,
     <<42951, 42953, 2, 1>>, <<42960, 42960, 1, 1>>, <<42966, 42968, 2,
     1>>, <<42997, 42997, 1, 1>>, <<65313, 65338, 1, 32>>, <<66560, 66599,
     1, 40>>, <<66736, 66771, 1, 40>>, <<66928, 66938, 1, 39>>, <<66940,
     66954, 1, 39>>, <<66956, 66962, 1, 39>>, <<66964, 66965, 1, 39>>,
     <<68736, 68786, 1, 64>>, <<71840, 71871, 1, 32>>, <<93760, 93791, 1,
     32>>, <<125184, 125217, 1, 34>>}

\* the case-ignorable code points, <<lo, hi>> inclusive
CaseIgnorableRanges ==
    {<<39, 39>>, <<46, 46>>, <<58, 58>>, <<94, 94>>, <<96, 96>>, <<168,
     168>>, <<173, 173>>, <<175, 175>>, <<180, 180>>, <<183, 184>>, <<688,
     879>>, <<884, 885>>, <<890, 890>>, <<900, 901>>, <<903, 903>>,
     <<1155, 1161>>, <<1369, 1369>>, <<1375, 1375>>, <<1425, 1469>>,
     <<1471, 1471>>, <<1473, 1474>>, <<1476, 1477>>, <<1479, 1479>>,
     <<1524, 1524>>, <<1536, 1541>>, <<1552, 1562>>, <<1564, 1564>>,
     <<1600, 1600>>, <<1611, 1631>>, <<1648, 1648>>, <<1750, 1757>>,
     <<1759, 1768>>, <<1770, 1773>>, <<1807, 1807>>, <<1809, 1809>>,
     <<1840, 1866>>, <<1958, 1968>>, <<2027, 2037>>, <<2042, 2042>>,
     <<2045, 2045>>, <<2070, 2093>>, <<2137, 2139>>, <<2184, 2184>>,
     <<2192, 2193>>, <<2200, 2207>>, <<2249, 2306>>, <<2362, 2362>>,
     <<2364, 2364>>, <<2369, 2376>>, <<2381, 2381>>, <<2385, 2391>>,
     <<2402, 2403>>, <<2417, 2417>>, <<2433, 2433>>, <<2492, 2492>>,
     <<2497, 2500>>, <<2509, 2509>>, <<2530, 2531>>, <<2558, 2558>>,
     <<2561, 2562>>, <<2620, 2620>>, <<2625, 2626>>, <<2631, 2632>>,
     <<2635, 2637>>, <<2641, 2641>>, <<2672, 2673>>, <<2677, 2677>>,
     <<2689, 2690>>, <<2748, 2748>>, <<2753, 2757>>, <<2759, 2760>>,
     <<2765, 2765>>, <<2786, 2787>>, <<2810, 2815>>, <<2817, 2817>>,
     <<2876, 2876>>, <<2879, 2879>>, <<2881, 2884>>, <<2893, 2893>>,
     <<2901, 2902>>, <<2914, 2915>>, <<2946, 2946>>, <<3008, 3008>>,
     <<3021, 3021>>, <<3072, 3072>>, <<3076, 3076>>, <<3132, 3132>>,
     <<3134, 3136>>, <<3142, 3144>>, <<3146, 3149>>, <<3157, 3158>>,
     <<3170, 3171>>, <<3201, 3201>>, <<3260, 3260>>, <<3263, 3263>>,
     <<3270, 3270>>, <<3276, 3277>>, <<3298, 3299>>, <<3328, 3329>>,
     <<3387, 3388>>, <<3393, 3396>>, <<3405, 3405>>, <<3426, 3427>>,
     <<3457, 3457>>, <<3530, 3530>>, <<3538, 3540>>, <<3542, 3542>>,
     <<3633, 3633>>, <<3636, 3642>>, <<3654, 3662>>, <<3761, 3761>>,
     <<3764, 3772>>, <<3782, 3782>>, <<3784, 3789>>, <<3864, 3865>>,
     <<3893, 3893>>, <<3895, 3895>>, <<3897, 3897>>, <<3953, 3966>>,
     <<3968, 3972>>, <<3974, 3975>>, <<3981, 3991>>, <<3993, 4028>>,
     <<4038, 4038>>, <<4141, 4144>>, <<4146, 4151>>, <<4153, 4154>>,
     <<4157, 4158>>, <<4184, 4185>>, <<4190, 4192>>, <<4209, 4212>>,
     <<4226, 4226>>, <<4229, 4230>>, <<4237, 4237>>, <<4253, 4253>>,
     <<4348, 4348>>, <<4957, 4959>>, <<5906, 5908>>, <<5938, 5939>>,
     <<5970, 5971>>, <<6002, 6003>>, <<6068, 6069>>, <<6071, 6077>>,
     <<6086, 6086>>, <<6089, 6099>>, <<6103, 6103>>, <<6109, 6109>>,
     <<6155, 6159>>, <<6211, 6211>>, <<6277, 6278>>, <<6313, 6313>>,
     <<6432, 6434>>, <<6439, 6440>>, <<6450, 6450>>, <<6457, 6459>>,
     <<6679, 6680>>, <<6683, 6683>>, <<6742, 6742>>, <<6744, 6750>>,
     <<6752, 6752>>, <<6754, 6754>>, <<6757, 6764>>, <<6771, 6780>>,
     <<6783, 6783>>, <<6823, 6823>>, <<6832, 6862>>, <<6912, 6915>>,
     <<6964, 6964>>, <<6966, 6970>>, <<6972, 6972>>, <<6978, 6978>>,
     <<7019, 7027>>, <<7040, 7041>>, <<7074, 7077>>, <<7080, 7081>>,
     <<7083, 7085>>, <<7142, 7142>>, <<7144, 7145>>, <<7149, 7149>>,
     <<7151, 7153>>, <<7212, 7219>>, <<7222, 7223>>, <<7288, 7293>>,
     <<7376, 7378>>, <<7380, 7392>>, <<7394, 7400>>, <<7405, 7405>>,
     <<7412, 7412>>, <<7416, 7417>>, <<7468, 7530>>, <<7544, 7544>>,
     <<7579, 7679>>, <<8125, 8125>>, <<8127, 8129>>, <<8141, 8143>>,
     <<8157, 8159>>, <<8173, 8175>>, <<8189, 8190>>, <<8203, 8207>>,
     <<8216, 8217>>, <<8228, 8228>>, <<8231, 8231>>, <<8234, 8238>>,
     <<8288, 8292>>, <<8294, 8303>>, <<8305, 8305>>, <<8319, 8319>>,
     <<8336, 8348>>, <<8400, 8432>>, <<11388, 11389>>, <<11503, 11505>>,
     <<11631, 11631>>, <<11647, 11647>>, <<11744, 11775>>, <<11823,
     11823>>, <<12293, 12293>>, <<12330, 12333>>, <<12337, 12341>>,
     <<12347, 12347>>, <<12441, 12446>>, <<12540, 12542>>, <<40981,
     40981>>, <<42232, 42237>>, <<42508, 42508>>, <<42607, 42610>>,
     <<42612, 42621>>, <<42623, 42623>>, <<42652, 42655>>, <<42736,
     42737>>, <<42752, 42785>>, <<42864, 42864>>, <<42888, 42890>>,
     <<42994, 42996>>, <<43000, 43001>>, <<43010, 43010>>, <<43014,
     43014>>, <<43019, 43019>>, <<43045, 43046>>, <<43052, 43052>>,
     <<43204, 43205>>, <<43232, 43249>>, <<43263, 43263>>, <<43302,
     43309>>, <<43335, 43345>>, <<43392, 43394>>, <<43443, 43443>>,
     <<43446, 43449>>, <<43452, 43453>>, <<43471, 43471>>, <<43493,
     43494>>, <<43561, 43566>>, <<43569, 43570>>, <<43573, 43574>>,
     <<43587, 43587>>, <<43596, 43596>>, <<43632, 43632>>, <<43644,
     43644>>, <<43696, 43696>>, <<43698, 43700>>, <<43703, 43704>>,
     <<43710, 43711>>, <<43713, 43713>>, <<43741, 43741>>, <<43756,
     43757>>, <<43763, 43764>>, <<43766, 43766>>, <<43867, 43871>>,
     <<43881, 43883>>, <<44005, 44005>>, <<44008, 44008>>, <<44013,
     44013>>, <<64286, 64286>>, <<64434, 64450>>, <<65024, 65039>>,
     <<65043, 65043>>, <<65056, 65071>>, <<65106, 65106>>, <<65109,
     65109>>, <<65279, 65279>>, <<65287, 65287>>, <<65294, 65294>>,
     <<65306, 65306>>, <<65342, 65342>>, <<65344, 65344>>, <<65392,
     65392>>, <<65438, 65439>>, <<65507, 65507>>, <<65529, 65531>>,
     <<66045, 66045>>, <<66272, 66272>>, <<66422, 66426>>, <<67456,
     67461>>, <<67463, 67504>>, <<67506, 67514>>, <<68097, 68099>>,
     <<68101, 68102>>, <<68108, 68111>>, <<68152, 68154>>, <<68159,
     68159>>, <<68325, 68326>>, <<68900, 68903>>, <<69291, 69292>>,
     <<69446, 69456>>, <<69506, 69509>>, <<69633, 69633>>, <<69688,
     69702>>, <<69744, 69744>>, <<69747, 69748>>, <<69759, 69761>>,
     <<69811, 69814>>, <<69817, 69818>>, <<69821, 69821>>, <<69826,
     69826>>, <<69837, 69837>>, <<69888, 69890>>, <<69927, 69931>>,
     <<69933, 69940>>, <<70003, 70003>>, <<70016, 70017>>, <<70070,
     70078>>, <<70089, 70092>>, <<70095, 70095>>, <<70191, 70193>>,
     <<70196, 70196>>, <<70198, 70199>>, <<70206, 70206>>, <<70367,
     70367>>, <<70371, 70378>>, <<70400, 70401>>, <<70459, 70460>>,
     <<70464, 70464>>, <<70502, 70508>>, <<70512, 70516>>, <<70712,
     70719>>, <<70722, 70724>>, <<70726, 70726>>, <<70750, 70750>>,
     <<70835, 70840>>, <<70842, 70842>>, <<70847, 70848>>, <<70850,
     70851>>, <<71090, 71093>>, <<71100, 71101>>, <<71103, 71104>>,
     <<71132, 71133>>, <<71219, 71226>>, <<71229, 71229>>, <<71231,
     71232>>, <<71339, 71339>>, <<71341, 71341>>, <<71344, 71349>>,
     <<71351, 71351>>, <<71453, 71455>>, <<71458, 71461>>, <<71463,
     71467>>, <<71727, 71735>>, <<71737, 71738>>, <<71995, 71996>>,
     <<71998, 71998>>, <<72003, 72003>>, <<72148, 72151>>, <<72154,
     72155>>, <<72160, 72160>>, <<72193, 72202>>, <<72243, 72248>>,
     <<72251, 72254>>, <<72263, 72263>>, <<72273, 72278>>, <<72281,
     72283>>, <<72330, 72342>>, <<72344, 72345>>, <<72752, 72758>>,
     <<72760, 72765>>, <<72767, 72767>>, <<72850, 72871>>, <<72874,
     72880>>, <<72882, 72883>>, <<72885, 72886>>, <<73009, 73014>>,
     <<73018, 73018>>, <<73020, 73021>>, <<73023, 73029>>, <<73031,
     73031>>, <<73104, 73105>>, <<73109, 73109>>, <<73111, 73111>>,
     <<73459, 73460>>, <<78896, 78904>>, <<92912, 92916>>, <<92976,
     92982>>, <<92992, 92995>>, <<94031, 94031>>, <<94095, 94111>>,
     <<94176, 94177>>, <<94179, 94180>>, <<110576, 110579>>, <<110581,
     110587>>, <<110589, 110590>>, <<113821, 113822>>, <<113824, 113827>>,
     <<118528, 118573>>, <<118576, 118598>>, <<119143, 119145>>, <<119155,
     119170>>, <<119173, 119179>>, <<119210, 119213>>, <<119362, 119364>>,
     <<121344, 121398>>, <<121403, 121452>>, <<121461, 121461>>, <<121476,
     121476>>, <<121499, 121503>>, <<121505, 121519>>, <<122880, 122886>>,
     <<122888, 122904>>, <<122907, 122913>>, <<122915, 122916>>, <<122918,
     122922>>, <<123184, 123197>>, <<123566, 123566>>, <<123628, 123631>>,
     <<125136, 125142>>, <<125252, 125259>>, <<127995, 127999>>, <<917505,
     917505>>, <<917536, 917631>>, <<917760, 917999>>}

\* the cased code points that are not case-ignorable, <<lo, hi>> inclusive
CasedRanges ==
    {<<65, 90>>, <<97, 122>>, <<170, 170>>, <<181, 181>>, <<186, 186>>,
     <<192, 214>>, <<216, 246>>, <<248, 442>>, <<444, 447>>, <<452, 659>>,
     <<661, 687>>, <<880, 883>>, <<886, 887>>, <<891, 893>>, <<895, 895>>,
     <<902, 902>>, <<904, 906>>, <<908, 908>>, <<910, 929>>, <<931,
     1013>>, <<1015, 1153>>, <<1162, 1327>>, <<1329, 1366>>, <<1376,
     1416>>, <<4256, 4293>>, <<4295, 4295>>, <<4301, 4301>>, <<4304,
     4346>>, <<4349, 4351>>, <<5024, 5109>>, <<5112, 5117>>, <<7296,
     7304>>, <<7312, 7354>>, <<7357, 7359>>, <<7424, 7467>>, <<7531,
     7543>>, <<7545, 7578>>, <<7680, 7957>>, <<7960, 7965>>, <<7968,
     8005>>, <<8008, 8013>>, <<8016, 8023>>, <<8025, 8025>>, <<8027,
     8027>>, <<8029, 8029>>, <<8031, 8061>>, <<8064, 8116>>, <<8118,
     8124>>, <<8126, 8126>>, <<8130, 8132>>, <<8134, 8140>>, <<8144,
     8147>>, <<8150, 8155>>, <<8160, 8172>>, <<8178, 8180>>, <<8182,
     8188>>, <<8450, 8450>>, <<8455, 8455>>, <<8458, 8467>>, <<8469,
     8469>>, <<8473, 8477>>, <<8484, 8484>>, <<8486, 8486>>, <<8488,
     8488>>, <<8490, 8493>>, <<8495, 8500>>, <<8505, 8505>>, <<8508,
     8511>>, <<8517, 8521>>, <<8526, 8526>>, <<8544, 8575>>, <<8579,
     8580>>, <<9398, 9449>>, <<11264, 11387>>, <<11390, 11492>>, <<11499,
     11502>>, <<11506, 11507>>, <<11520, 11557>>, <<11559, 11559>>,
     <<11565, 11565>>, <<42560, 42605>>, <<42624, 42651>>, <<42786,
     42863>>, <<42865, 42887>>, <<42891, 42894>>, <<42896, 42954>>,
     <<42960, 42961>>, <<42963, 42963>>, <<42965, 42969>>, <<42997,
     42998>>, <<43002, 43002>>, <<43824, 43866>>, <<43872, 43880>>,
     <<43888, 43967>>, <<64256, 64262>>, <<64275, 64279>>, <<65313,
     65338>>, <<65345, 65370>>, <<66560, 66639>>, <<66736, 66771>>,
     <<66776, 66811>>, <<66928, 66938>>, <<66940, 66954>>, <<66956,
     66962>>, <<66964, 66965>>, <<66967, 66977>>, <<66979, 66993>>,
     <<66995, 67001>>, <<67003, 67004>>, <<68736, 68786>>, <<68800,
     68850>>, <<71840, 71903>>, <<93760, 93823>>, <<119808, 119892>>,
     <<119894, 119964>>, <<119966, 119967>>, <<119970, 119970>>, <<119973,
     119974>>, <<119977, 119980>>, <<119982, 119993>>, <<119995, 119995>>,
     <<119997, 120003>>, <<120005, 120069>>, <<120071, 120074>>, <<120077,
     120084>>, <<120086, 120092>>, <<120094, 120121>>, <<120123, 120126>>,
     <<120128, 120132>>, <<120134, 120134>>, <<120138, 120144>>, <<120146,
     120485>>, <<120488, 120512>>, <<120514, 120538>>, <<120540, 120570>>,
     <<120572, 120596>>, <<120598, 120628>>, <<120630, 120654>>, <<120656,
     120686>>, <<120688, 120712>>, <<120714, 120744>>, <<120746, 120770>>,
     <<120772, 120779>>, <<122624, 122633>>, <<122635, 122654>>, <<125184,
     125251>>, <<127280, 127305>>, <<127312, 127337>>, <<127344, 127369>>}

CaseIgnorable(c) == \E r \in CaseIgnorableRanges : r[1] <= c /\ c <= r[2]

Cased(c) == \E r \in CasedRanges : r[1] <= c /\ c <= r[2]

LowerChar(c) ==
    LET hit == {r \in LowerRanges :
                   r[1] <= c /\ c <= r[2] /\ (c - r[1]) % r[3] = 0}
    IN  IF c < 128 THEN (IF 65 <= c /\ c <= 90 THEN c + 32 ELSE c)
        ELSE IF hit = {} THEN c
        ELSE c + (CHOOSE r \in hit : TRUE)[4]

\* the lower case of capital sigma at s[i]: final sigma (U+03C2) when the
\* nearest code point before it that is not case-ignorable is cased and the
\* nearest one after it, if any, is not; else U+03C3
LowerSigma(s, i) ==
    LET before == {j \in 1..(i - 1) : ~CaseIgnorable(s[j])}
        after == {j \in (i + 1)..Len(s) : ~CaseIgnorable(s[j])}
        prev == CHOOSE j \in before : \A k \in before : k <= j
        next == CHOOSE j \in after : \A k \in after : j <= k
    IN  IF /\ before # {}
           /\ Cased(s[prev])
           /\ (after = {} \/ ~Cased(s[next]))
        THEN 962 ELSE 963

\* what s[i] contributes to s.lower()
Lower(s, i) ==
    IF s[i] = 304 THEN <<105, 775>>
    ELSE IF s[i] = 931 THEN <<LowerSigma(s, i)>>
    ELSE <<LowerChar(s[i])>>

\* s.lower(): the contributions of s[1], s[2], ... one after the other;
\* s[i]'s begins at i plus the number of U+0130 before it
LowerSeq(s) ==
    LET wide == {i \in 1..Len(s) : s[i] = 304}
        Start(i) == i + Cardinality({j \in wide : j < i})
        At(k) == CHOOSE i \in 1..Len(s) :
                    Start(i) <= k /\ k < Start(i) + Len(Lower(s, i))
    IN  IF wide = {} THEN [i \in 1..Len(s) |-> Lower(s, i)[1]]
        ELSE [k \in 1..(Len(s) + Cardinality(wide)) |->
                 Lower(s, At(k))[k - Start(At(k)) + 1]]

\* s.rfind(c), counted from 1; 0 when c does not occur
RFind(s, c) ==
    LET at == {i \in 1..Len(s) : s[i] = c}
    IN  IF at = {} THEN 0 ELSE CHOOSE i \in at : \A j \in at : j <= i

\* os.path.splitext(name)[1]: the suffix from the last dot of the last path
\* component, empty when that component has no dot or only dots precede it
SplitExt(name) ==
    LET sepIndex == RFind(name, Ord("/"))
        dotIndex == RFind(name, Ord("."))
    IN  IF dotIndex > sepIndex
           /\ \E j \in (sepIndex + 1)..(dotIndex - 1) : name[j] # Ord(".")
        THEN SubSeq(name, dotIndex, Len(name))
        ELSE <<>>

FileExtension(filename) == LowerSeq(SplitExt(filename))

\* bytes of one code point in the file system encoding (UTF-8 with
\* surrogateescape: U+DC80..U+DCFF stand for one byte each)
Utf8Len(c) ==
    IF c < 128 \/ (56448 <= c /\ c <= 56575) THEN 1
    ELSE IF c < 2048 THEN 2
    ELSE IF c < 65536 THEN 3
    ELSE 4

EncodedLen(s) ==
    LET Of(n) == Cardinality({i \in 1..Len(s) : Utf8Len(s[i]) = n})
    IN  Of(1) + 2 * Of(2) + 3 * Of(3) + 4 * Of(4)

\* the other surrogates have no encoding
Encodable(c) == c < 55296 \/ c > 57343 \/ (56448 <= c /\ c <= 56575)

\* line 126: NamedTemporaryFile(delete=False, suffix=suffix) can name its
\* file "tmp", eight characters and the suffix: no NUL, no separator, every
\* code point encodable, at most NameMax bytes
TempFileNameOk(suffix) ==
    /\ \A i \in 1..Len(suffix) :
          suffix[i] # 0 /\ suffix[i] # Ord("/") /\ Encodable(suffix[i])
    /\ TempPrefixLen + EncodedLen(suffix) <= NameMax

\* ------------------------------------------------ dict (Python) as function
DictSet(d, k, v) == [x \in (DOMAIN d) \cup {k} |-> IF x = k THEN v ELSE d[x]]

EmptyDict == [x \in {} |-> 0]

\* ------------------------------------------------- Tolerant JSON extractor
\* LLM output is a sequence of lexemes: "{", "}", ",", prose "x", and whole
\* members "s" ("score": 85), "t" ("score": 70), "f" ("feedback": ["x"]).
Lexemes == {"{", "}", ",", "x", "s", "t", "f"}
Members == {"s", "t", "f"}

MemberKey(m) == IF m = "f" THEN "feedback" ELSE "score"
MemberValue(m) == IF m = "s" THEN 85 ELSE IF m = "t" THEN 70 ELSE <<"x">>

NoMatch == <<>>

\* re.search(r'\{.*\}', text, re.DOTALL).group(0): leftmost start that can
\* match, then the longest match from it; NoMatch when nothing matches
RegexSearchLazy(text) ==
    LET starts == {i \in 1..Len(text) :
                      text[i] = "{" /\ \E j \in (i+1)..Len(text) : text[j] = "}"}
        i0 == CHOOSE i \in starts : \A k \in starts : i <= k
        ends == {j \in (i0+1)..Len(text) : text[j] = "}"}
        j0 == CHOOSE j \in ends : \A k \in ends : j <= k
    IN  IF starts = {} THEN NoMatch ELSE SubSeq(text, i0, j0)

RegexSearch(text) ==
    LET starts == {i \in 1..Len(text) :
                      text[i] = "{" /\ \E j \in (i+1)..Len(text) : text[j] = "}"}
        i0 == CHOOSE i \in starts : \A k \in starts : i <= k
        ends == {j \in (i0+1)..Len(text) : text[j] = "}"}
        j0 == CHOOSE j \in ends : \A k \in ends : j >= k
    IN  IF starts = {} THEN NoMatch ELSE SubSeq(text, i0, j0)

\* the members between the braces: member ("," member)*, or nothing
RECURSIVE WellFormedMembers(_)
WellFormedMembers(inner) ==
    IF inner = <<>> THEN FALSE
    ELSE IF inner[1] \notin Members THEN FALSE
    ELSE IF Len(inner) = 1 THEN TRUE
    ELSE inner[2] = "," /\ WellFormedMembers(SubSeq(inner, 3, Len(inner)))

\* whether json.loads(json_str) succeeds
JsonValid(json_str) ==
    /\ Len(json_str) >= 2
    /\ json_str[1] = "{"
    /\ json_str[Len(json_str)] = "}"
    /\ LET inner == SubSeq(json_str, 2, Len(json_str) - 1)
       IN  inner = <<>> \/ WellFormedMembers(inner)

\* json.loads(json_str) of a valid object: later duplicate keys win
RECURSIVE LoadMembers(_, _)
LoadMembers(inner, d) ==
    IF inner = <<>> THEN d
    ELSE IF inner[1] \in Members
         THEN LoadMembers(Tail(inner),
                          DictSet(d, MemberKey(inner[1]), MemberValue(inner[1])))
         ELSE LoadMembers(Tail(inner), d)

JsonLoads(json_str) == LoadMembers(SubSeq(json_str, 2, Len(json_str) - 1), EmptyDict)

\* lines 162-175: the outcome of the oracle call and of the JSON extraction
ParseResponse(reply) ==
    IF ~reply.ok THEN [kind |-> "LlmError", value |-> EmptyDict]
    ELSE LET match == RegexSearch(reply.text)
         IN  IF match = NoMatch
             THEN [kind |-> "NoJsonFound", value |-> EmptyDict]
             ELSE IF ~JsonValid(match)
                  THEN [kind |-> "MalformedJson", value |-> EmptyDict]
                  ELSE [kind |-> "ok", value |-> JsonLoads(match)]

\* ------------------------------------------------------- rewrite helpers
\* "bq" is the backquote character, "a" any other character
Fence == <<"bq", "bq", "bq">>

\* res.text.replace(Fence, "") with only the first occurrence removed
RECURSIVE ReplaceFirstFence(_)
ReplaceFirstFence(s) ==
    IF Len(s) < 3 THEN s
    ELSE IF SubSeq(s, 1, 3) = Fence THEN SubSeq(s, 4, Len(s))
    ELSE <<s[1]>> \o ReplaceFirstFence(Tail(s))

\* res.text.replace(Fence, ""): non-overlapping occurrences, left to right
RECURSIVE ReplaceFences(_)
ReplaceFences(s) ==
    IF Len(s) < 3 THEN s
    ELSE IF SubSeq(s, 1, 3) = Fence THEN ReplaceFences(SubSeq(s, 4, Len(s)))
    ELSE <<s[1]>> \o ReplaceFences(Tail(s))

\* ------------------------------------------------------------ state
VARIABLES
    started,          \* startup_event has run
    mail_config,      \* the global mail_config: "None" or "ConnectionConfig"
    analysis_cache,   \* the global analysis_cache: result_id -> result dict
    fs,               \* names of the temporary files that exist
    pending,          \* handlers suspended at an await, responses being streamed
    issued,           \* the results successful /analyze requests returned
    nreq,             \* requests admitted so far
    resp              \* the request that completed last and its response

vars == <<started, mail_config, analysis_cache, fs, pending, issued, nreq, resp>>

\* tempfile gives every temporary file a name no other file has; the model
\* names the file after the request that creates it
TempName(n) == n
Ids == 1..MaxRequests
NoFile == 0
NoReply == [ok |-> FALSE, text |-> <<>>]

NotExtracted == [kind |-> "none", text |-> <<>>]
NoPrompt == [kind |-> "none", job_title |-> <<>>, resume |-> <<>>]
NoInput == [ext |-> <<>>, ex |-> NotExtracted, prompt |-> NoPrompt]

\* ep, status, body: the endpoint and its HTTP response; outcome: the branch
\* that produced it; tmp: the temporary file the handler created; calls and
\* oracle: how often the handler called its oracle and what it got back;
\* key: the result_id involved; input: the handler's file_extension, its
\* extraction result and the prompt it sent
Response(ep, status, outcome, body, tmp, calls, oracle, key) ==
    [ep |-> ep, status |-> status, outcome |-> outcome, body |-> body,
     tmp |-> tmp, calls |-> calls, oracle |-> oracle, key |-> key,
     input |-> NoInput]

AnalyzeResponse(status, outcome, body, tmp, calls, oracle, key, ext, ex, prompt) ==
    [ep |-> "analyze", status |-> status, outcome |-> outcome, body |-> body,
     tmp |-> tmp, calls |-> calls, oracle |-> oracle, key |-> key,
     input |-> [ext |-> ext, ex |-> ex, prompt |-> prompt]]

Detail(msg) == [detail |-> msg]

Init ==
    /\ started = FALSE
    /\ mail_config = "None"
    /\ analysis_cache = EmptyDict
    /\ fs = {}
    /\ pending = {}
    /\ issued = {}
    /\ nreq = 0
    /\ resp = Response("none", 0, "none", EmptyDict, NoFile, 0, NoReply, 0)

\* ------------------------------------------------------------ startup
\* lines 64-84: mail_config is assigned only when the server name is found,
\* MAIL_PORT parses as an integer and ConnectionConfig validates
LoadMailConfig(has_server, port_ok, fields_ok) ==
    IF has_server /\ port_ok /\ fields_ok THEN "ConnectionConfig" ELSE "None"

startup_event ==
    /\ ~started
    /\ \E has_server \in BOOLEAN, port_ok \in BOOLEAN, fields_ok \in BOOLEAN :
          mail_config' = LoadMailConfig(has_server, port_ok, fields_ok)
    /\ started' = TRUE
    /\ UNCHANGED <<analysis_cache, fs, pending, issued, nreq, resp>>

Admit == started /\ nreq < MaxRequests

\* ------------------------------------------------------------ /analyze
PdfExt == Codes(<<".", "p", "d", "f">>)
DocxExt == Codes(<<".", "d", "o", "c", "x">>)

\* not text.strip(), with only the empty string taken as blank
IsBlankEmptyOnly(text) == text = <<>>

\* line 139: not text.strip()
IsBlank(text) == Strip(text) = <<>>

\* lines 144-161: the prompt, which embeds text[:8000] and, for a non-blank
\* job title, the title
BuildPrompt(job_title, text) ==
    IF job_title # <<>> /\ ~IsBlank(job_title)
    THEN [kind |-> "role", job_title |-> job_title, resume |-> Take(text, PromptLen)]
    ELSE [kind |-> "general", job_title |-> <<>>, resume |-> Take(text, PromptLen)]

\* text[:2000] replaced by the prompt's slice
PreviewAsPrompt(text) == Take(text, PromptLen)

\* line 177: text[:2000]
Preview(text) == Take(text, PreviewLen)

\* lines 130-140: the text the decoders give for the saved upload, or the
\* reason there is none
ExtractText(file_extension, doc, decodes) ==
    IF file_extension = PdfExt
    THEN IF decodes THEN [kind |-> "text", text |-> doc.pdf]
         ELSE [kind |-> "ParseError", text |-> <<>>]
    ELSE IF file_extension = DocxExt
    THEN IF decodes THEN [kind |-> "text", text |-> JoinLines(doc.paragraphs)]
         ELSE [kind |-> "ParseError", text |-> <<>>]
    ELSE [kind |-> "UnsupportedType", text |-> <<>>]

\* str(uuid.uuid4()) returning any identifier at all
AnyResultIds(cache) == Ids

\* line 180: str(uuid.uuid4()), an identifier not generated before
NewResultIds(cache) == Ids \ DOMAIN cache

\* the assignment replacing the whole mapping by the new entry
CachePutEvicting(cache, result_id, result) == DictSet(EmptyDict, result_id, result)

\* line 181: analysis_cache[result_id] = analysis_result
CachePut(cache, result_id, result) == DictSet(cache, result_id, result)

\* the cache written before the response was parsed
CacheAfterAnalyzeEager(cache, out, result_id, result) ==
    IF out.kind \in {"ok", "MalformedJson"} THEN CachePut(cache, result_id, result)
    ELSE cache

\* lines 162-181: the cache is written only when the oracle call and the
\* JSON parse both succeeded
CacheAfterAnalyze(cache, out, result_id, result) ==
    IF out.kind = "ok" THEN CachePut(cache, result_id, result) ELSE cache

\* lines 119-190: the whole handler.  It contains no await (generate_content
\* at line 162 is a blocking call), so no other handler runs between its first
\* and last statement.  fault "create" is NamedTemporaryFile raising
\* for a reason of the environment (it also raises when the suffix cannot be
\* part of a file name), fault "copy" is shutil.copyfileobj raising, fault
\* "decode" the decoder raising.  The cached dict and the returned dict are one object,
\* so the entry carries result_id.
analyze(upload, job_title, fault, reply) ==
    /\ Admit
    /\ \E result_id \in NewResultIds(analysis_cache) :
         LET f == TempName(nreq + 1)
             file_extension == FileExtension(upload.filename)
             ex == ExtractText(file_extension, upload, fault # "decode")
             prompt == BuildPrompt(job_title, ex.text)
             out == ParseResponse(reply)
             result == DictSet(DictSet(out.value, "raw_text_preview",
                                       Preview(ex.text)),
                               "result_id", result_id)
         IN  IF fault = "create" \/ ~TempFileNameOk(file_extension)
             THEN \* line 126 raises: no file was created
                  /\ UNCHANGED <<fs, analysis_cache, issued>>
                  /\ resp' = AnalyzeResponse(500, "TempFileError",
                                             Detail("create"), NoFile, 0,
                                             NoReply, 0, file_extension,
                                             NotExtracted, NoPrompt)
             ELSE IF fault = "copy"
             THEN \* temp_file_path is still "": the finally block removes nothing
                  /\ fs' = fs \cup {f}
                  /\ UNCHANGED <<analysis_cache, issued>>
                  /\ resp' = AnalyzeResponse(500, "SaveError", Detail("copy"),
                                             f, 0, NoReply, 0,
                                             file_extension, NotExtracted, NoPrompt)
             ELSE IF ex.kind = "UnsupportedType"
             THEN /\ UNCHANGED <<fs, analysis_cache, issued>>
                  /\ resp' = AnalyzeResponse(400, "UnsupportedType",
                                             Detail("Unsupported file type"),
                                             f, 0, NoReply, 0, file_extension, ex,
                                             NoPrompt)
             ELSE IF ex.kind = "ParseError"
             THEN /\ UNCHANGED <<fs, analysis_cache, issued>>
                  /\ resp' = AnalyzeResponse(500, "ParseError", Detail("decode"),
                                             f, 0, NoReply, 0, file_extension, ex,
                                             NoPrompt)
             ELSE IF IsBlank(ex.text)
             THEN /\ UNCHANGED <<fs, analysis_cache, issued>>
                  /\ resp' = AnalyzeResponse(400, "EmptyExtraction",
                                             Detail("Could not extract text"),
                                             f, 0, NoReply, 0, file_extension, ex,
                                             NoPrompt)
             ELSE /\ fs' = fs
                  /\ analysis_cache' =
                        CacheAfterAnalyze(analysis_cache, out, result_id, result)
                  /\ IF out.kind = "ok"
                     THEN /\ issued' = issued \cup
                                 {[id |-> result_id, body |-> result,
                                   text |-> ex.text,
                                   inflight |-> Cardinality(pending)]}
                          /\ resp' = AnalyzeResponse(200, "ok", result, f, 1,
                                                     reply, result_id,
                                                     file_extension, ex, prompt)
                     ELSE /\ issued' = issued
                          /\ resp' = AnalyzeResponse(500, out.kind,
                                                     Detail(out.kind), f, 1,
                                                     reply, 0, file_extension,
                                                     ex, prompt)
    /\ nreq' = nreq + 1
    /\ UNCHANGED <<started, mail_config, pending>>

\* ------------------------------------------------------ /result/{id}
\* lines 113-116
get_result(result_id) ==
    /\ Admit
    /\ IF result_id \in DOMAIN analysis_cache
          /\ DOMAIN analysis_cache[result_id] # {}
       THEN resp' = Response("result", 200, "ok", analysis_cache[result_id],
                             NoFile, 0, NoReply, result_id)
       ELSE resp' = Response("result", 404, "NotFound",
                             Detail("Result not found or expired."),
                             NoFile, 0, NoReply, result_id)
    /\ nreq' = nreq + 1
    /\ UNCHANGED <<started, mail_config, analysis_cache, fs, pending, issued>>

\* ------------------------------------------------------------ /contact
\* the guard of line 240 never taken
MailUnavailableNever(config) == FALSE

\* line 240: not mail_config
MailUnavailable(config) == config = "None"

ErrorRedirect == [location |-> "/?contact_status=error#contact-section"]
SuccessRedirect == [location |-> "/?contact_status=success#contact-section"]

\* a handler waiting at an await, or a FileResponse not yet streamed
Suspended(ep, id, tmp, body) == [ep |-> ep, id |-> id, tmp |-> tmp, body |-> body]

\* lines 217-246: the handler up to the await of fm.send_message; with the
\* configuration unset it answers at once
post_contact_form ==
    /\ Admit
    /\ MailUnavailable(mail_config) \/ Cardinality(pending) < MaxPending
    /\ IF MailUnavailable(mail_config)
       THEN /\ resp' = Response("contact", 303, "error", ErrorRedirect,
                                NoFile, 0, NoReply, 0)
            /\ pending' = pending
       ELSE /\ resp' = resp
            /\ pending' = pending \cup
                   {Suspended("contact", nreq + 1, NoFile, EmptyDict)}
    /\ nreq' = nreq + 1
    /\ UNCHANGED <<started, mail_config, analysis_cache, fs, issued>>

\* lines 246-250: fm.send_message returns (delivered) or raises
send_message(r, delivered) ==
    /\ r \in pending
    /\ r.ep = "contact"
    /\ IF delivered
       THEN resp' = Response("contact", 303, "success", SuccessRedirect,
                             NoFile, 1, NoReply, 0)
       ELSE resp' = Response("contact", 303, "error", ErrorRedirect,
                             NoFile, 1, NoReply, 0)
    /\ pending' = pending \ {r}
    /\ UNCHANGED <<started, mail_config, analysis_cache, fs, issued, nreq>>

\* ------------------------------------------------------------ /rewrite
\* a request value is a string (kept as text) or something that cannot be
\* sliced
StrValue(t) == [type |-> "str", val |-> t]
IntValue == [type |-> "int", val |-> <<>>]

\* req.get(key, default)
DictGet(d, k, default) == IF k \in DOMAIN d THEN d[k] ELSE default

\* lines 194-202 with one fence removed instead of all
RewriteBodyFirstFence(req, reply) ==
    LET text == DictGet(req, "text", StrValue(<<>>))
    IN  IF text.type # "str"
        THEN [calls |-> 0, optimized_text |-> <<"Error: ", "TypeError">>]
        ELSE IF ~reply.ok
        THEN [calls |-> 1, optimized_text |-> <<"Error: ", "LlmError">>]
        ELSE [calls |-> 1, optimized_text |-> ReplaceFirstFence(reply.text)]

\* lines 194-202: what the handler returns and how often it called the oracle
RewriteBody(req, reply) ==
    LET text == DictGet(req, "text", StrValue(<<>>))
    IN  IF text.type # "str"
        THEN [calls |-> 0, optimized_text |-> <<"Error: ", "TypeError">>]
        ELSE IF ~reply.ok
        THEN [calls |-> 1, optimized_text |-> <<"Error: ", "LlmError">>]
        ELSE [calls |-> 1, optimized_text |-> ReplaceFences(reply.text)]

rewrite(req, reply) ==
    /\ Admit
    /\ LET out == RewriteBody(req, reply)
       IN  resp' = Response("rewrite", 200, "ok",
                            [optimized_text |-> out.optimized_text],
                            NoFile, out.calls,
                            IF out.calls = 0 THEN NoReply ELSE reply, 0)
    /\ nreq' = nreq + 1
    /\ UNCHANGED <<started, mail_config, analysis_cache, fs, pending, issued>>

\* ------------------------------------------------ /download-pdf, -docx
\* lines 280-281: one text line per input line, each cut to 100 characters
PdfLines(text) ==
    LET lines == SplitLines(text, <<>>)
    IN  [i \in 1..Len(lines) |-> Take(lines[i], PdfLineLen)]

\* lines 275-285; rendered is FALSE when the canvas calls raise.  On success
\* the handler returns a FileResponse and f is still on disk.
dl_pdf(text, rendered) ==
    /\ Admit
    /\ ~rendered \/ Cardinality(pending) < MaxPending
    /\ LET f == TempName(nreq + 1)
       IN
         /\ fs' = fs \cup {f}
         /\ IF rendered
            THEN /\ pending' = pending \cup
                        {Suspended("download-pdf", nreq + 1, f,
                                   [lines |-> PdfLines(text)])}
                 /\ resp' = resp
            ELSE \* the exception leaves the with block; nothing removes f
                 /\ pending' = pending
                 /\ resp' = Response("download-pdf", 500, "RenderError",
                                     Detail("render"), f, 0, NoReply, 0)
    /\ nreq' = nreq + 1
    /\ UNCHANGED <<started, mail_config, analysis_cache, issued>>

\* lines 289-295; rendered is FALSE when add_paragraph or save raise
dl_docx(text, rendered) ==
    /\ Admit
    /\ ~rendered \/ Cardinality(pending) < MaxPending
    /\ LET f == TempName(nreq + 1)
       IN
         /\ fs' = fs \cup {f}
         /\ IF rendered
            THEN /\ pending' = pending \cup
                        {Suspended("download-docx", nreq + 1, f,
                                   [paragraphs |-> <<text>>])}
                 /\ resp' = resp
            ELSE /\ pending' = pending
                 /\ resp' = Response("download-docx", 500, "RenderError",
                                     Detail("render"), f, 0, NoReply, 0)
    /\ nreq' = nreq + 1
    /\ UNCHANGED <<started, mail_config, analysis_cache, issued>>

\* lines 285 and 295: the framework sends the FileResponse and calls its
\* background callable, os.remove(f), once the body has been sent; when the
\* client goes away first (sent is FALSE) the callable is never called
FileResponse(r, sent) ==
    /\ r \in pending
    /\ r.ep \in {"download-pdf", "download-docx"}
    /\ IF sent
       THEN /\ fs' = fs \ {r.tmp}
            /\ resp' = Response(r.ep, 200, "ok", r.body, r.tmp, 0, NoReply, 0)
       ELSE /\ fs' = fs
            /\ resp' = Response(r.ep, 200, "StreamAborted", EmptyDict, r.tmp,
                                0, NoReply, 0)
    /\ pending' = pending \ {r}
    /\ UNCHANGED <<started, mail_config, analysis_cache, issued, nreq>>

\* ------------------------------------------------------------ inputs
TShort == << <<"a", 5>> >>
TBlank == << <<" ", 1>>, <<"\f", 1>>, <<"\r", 1>>, <<"\n", 1>>, <<"\t", 1>> >>
TLong == << <<"a", 2000>>, <<"b", 6001>> >>
TLines == << <<"a", 101>>, <<"\n", 2>>, <<"b", 3>> >>

Doc(name, pdf, paragraphs) ==
    [filename |-> name, pdf |-> pdf, paragraphs |-> paragraphs]

Uploads ==
    {Doc(Codes(<<"C", "V", ".", "P", "d", "F">>), t, <<>>) : t \in {TBlank, TLong}}
    \cup {Doc(Codes(<<"c", "v", ".", "d", "o", "c", "x">>), <<>>, ps) :
             ps \in {<< <<>>, <<>> >>, <<TShort, TBlank>>}}
    \cup {Doc(Codes(<<"c", "v", ".", "t", "x", "t">>), TShort, <<>>)}

JobTitles == {<< <<"d", 3>> >>}
Faults == {"none", "create", "copy", "decode"}

Reply(text) == [ok |-> TRUE, text |-> text]

LlmReplies ==
    {NoReply, Reply(<<"{", "s", "}", "x", "}">>),
     Reply(<<"x", "{", "s", ",", "f", "}", "x">>)}

RewriteReqs == {[text |-> StrValue(TLong)]}

RewriteReplies ==
    {NoReply, Reply(<<"bq", "bq", "bq", "a", "bq", "bq", "bq">>)}

DownloadTexts == {TLines}

Next ==
    \/ startup_event
    \/ \E u \in Uploads, j \in JobTitles, fault \in Faults, reply \in LlmReplies :
          analyze(u, j, fault, reply)
    \/ \E id \in Ids : get_result(id)
    \/ post_contact_form
    \/ \E r \in pending, delivered \in BOOLEAN : send_message(r, delivered)
    \/ \E req \in RewriteReqs, reply \in RewriteReplies : rewrite(req, reply)
    \/ \E t \in DownloadTexts, rendered \in BOOLEAN : dl_pdf(t, rendered)
    \/ \E t \in DownloadTexts, rendered \in BOOLEAN : dl_docx(t, rendered)
    \/ \E r \in pending, sent \in BOOLEAN : FileResponse(r, sent)

Spec == Init /\ [][Next]_vars

\* ----------------------------------- one /analyze request, every upload
\* a name as the sequence of its characters
Name(stem, ext) == stem \o ext

\* n times the code point c
Rep(c, n) == [i \in 1..n |-> c]

\* extensions of ASCII letters in either case; with letters outside ASCII
\* (U+00C9, U+212A KELVIN SIGN, U+0130, U+0394, capital sigma in and out of
\* final position); with a NUL, with a surrogate; and around the longest
\* suffix a temporary file's name can take
Extensions ==
    {Codes(e) : e \in {<<>>, <<".">>, <<"p", "d", "f">>, <<".", "p", "d", "f">>,
                        <<".", "P", "D", "F">>, <<".", "p", "D", "f">>,
                        <<".", "d", "o", "c", "x">>, <<".", "D", "o", "c", "x">>,
                        <<".", "d", "o", "c">>, <<".", "T", "X", "T">>,
                        <<".", "p", "d", "f", "/">>}}
    \cup {<<46, 201>>, <<46, 8490>>, <<46, 304>>, <<46, 80, 916, 70>>,
          <<46, 65, 931>>, <<46, 931, 65>>, <<46, 931>>, <<46, 65, 46, 931, 49>>,
          <<46, 0>>, <<46, 55296>>, <<46, 56448>>}
    \cup {<<46>> \o Rep(97, NameMax - TempPrefixLen - 1),
          <<46>> \o Rep(97, NameMax - TempPrefixLen),
          <<46>> \o Rep(233, 121), <<46>> \o Rep(233, 122)}

AllFilenames ==
    {Name(Codes(stem), ext) :
        stem \in {<<>>, <<"c", "v">>, <<"a", ".", "b", "/">>,
                  <<"d", "/", "c", "v">>, <<".">>, <<"c", ".", "p", "d", "f">>},
        ext \in Extensions}

UploadTexts ==
    {<<>>, TBlank, << <<"\n", 1>>, <<" ", 1>> >>, << <<"\f", 2>> >>,
     << <<"U+00A0", 1>>, <<"U+000B", 1>> >>, TShort, TLong,
     << <<"\t", 1>>, <<"a", 1>>, <<"\r", 1>>, <<"\n", 1>> >>}

UploadParagraphs ==
    {<<>>, << <<>>, <<>> >>, <<TBlank>>, <<TShort, TBlank>>,
     << << <<"b", 1999>> >>, << <<"b", 2>> >> >>}

\* the document read as PDF gives t, read as DOCX the paragraphs ps
AllUploads ==
    {Doc(n, t, <<>>) : n \in AllFilenames, t \in UploadTexts}
    \cup {Doc(n, <<>>, ps) : n \in AllFilenames, ps \in UploadParagraphs}

AllJobTitles == {<<>>, << <<" ", 1>>, <<"\t", 1>> >>, << <<"d", 3>> >>}

NextUpload ==
    \/ startup_event
    \/ /\ nreq = 0
       /\ \E u \in AllUploads, j \in AllJobTitles, fault \in Faults,
             reply \in LlmReplies : analyze(u, j, fault, reply)

SpecUpload == Init /\ [][NextUpload]_vars

\* ------------------------------- one /analyze request, every LLM output
SeqsUpTo(S, n) == UNION {[1..k -> S] : k \in 0..n}

JsonReplies == {NoReply} \cup {Reply(t) : t \in SeqsUpTo(Lexemes, MaxLen)}

NextJson ==
    \/ startup_event
    \/ /\ nreq = 0
       /\ \E reply \in JsonReplies :
             analyze(Doc(Codes(<<"c", "v", ".", "p", "d", "f">>), TLong, <<>>),
                     <<>>, "none", reply)

SpecJson == Init /\ [][NextJson]_vars

\* ------------------------------- one /rewrite request, every LLM output
FenceReplies == {NoReply} \cup {Reply(t) : t \in SeqsUpTo({"bq", "a"}, MaxFence)}

AllRewriteReqs ==
    {EmptyDict, [text |-> IntValue], [text |-> StrValue(TShort)],
     [text |-> StrValue(TLong), job_title |-> StrValue(<< <<"d", 3>> >>)]}

NextRewrite ==
    \/ startup_event
    \/ /\ nreq = 0
       /\ \E req \in AllRewriteReqs, reply \in FenceReplies : rewrite(req, reply)

SpecRewrite == Init /\ [][NextRewrite]_vars

\* ============================================================ properties
\* a step in which a request completes: a handler ran from start to end, or
\* a suspended one finished
Completes ==
    \/ nreq' = nreq + 1 /\ pending' = pending
    \/ nreq' = nreq /\ Cardinality(pending') < Cardinality(pending)

AnalyzeCompletes == Completes /\ resp'.ep = "analyze"

WhitespaceOnly(t) == \A i \in 1..Len(t) : t[i][1] \in Whitespace

SupportedExt(ext) == ext = <<46, 112, 100, 102>> \/ ext = <<46, 100, 111, 99, 120>>

\* p is the first n characters of t
FirstChars(p, t, n) ==
    /\ TextLen(p) = (IF TextLen(t) < n THEN TextLen(t) ELSE n)
    /\ Len(p) <= Len(t)
    /\ \A i \in 1..Len(p) :
          /\ p[i][1] = t[i][1]
          /\ IF i < Len(p) THEN p[i][2] = t[i][2] ELSE p[i][2] <= t[i][2]

\* ------------------------------------------------------------------ C1
\* C1 as stated: the LLM oracle is called only for a .pdf/.docx upload whose
\* extracted text is not blank; every request with another extension, and
\* every request whose extracted text is blank, is answered 400
\* (UnsupportedType / EmptyExtraction) without an oracle call.
C1_Original ==
    resp.ep = "analyze" =>
        /\ resp.calls > 0 =>
              /\ SupportedExt(resp.input.ext)
              /\ resp.input.ex.kind = "text"
              /\ ~WhitespaceOnly(resp.input.ex.text)
        /\ ~SupportedExt(resp.input.ext) =>
              /\ resp.status = 400
              /\ resp.outcome = "UnsupportedType"
              /\ resp.calls = 0
        /\ (resp.input.ex.kind = "text" /\ WhitespaceOnly(resp.input.ex.text)) =>
              /\ resp.status = 400
              /\ resp.outcome = "EmptyExtraction"
              /\ resp.calls = 0

\* C1 amended: the LLM oracle is called only for a .pdf/.docx upload whose
\* extracted text is not blank; a request with another extension is answered
\* 400 UnsupportedType once its upload has been saved to the temporary file
\* and 500 when creating that file or saving to it fails, a request whose extracted text is blank is
\* answered 400 EmptyExtraction, and in none of these cases is the oracle
\* called.
C1_OracleGuard ==
    resp.ep = "analyze" =>
        /\ resp.calls > 0 =>
              /\ SupportedExt(resp.input.ext)
              /\ resp.input.ex.kind = "text"
              /\ ~WhitespaceOnly(resp.input.ex.text)
        /\ ~SupportedExt(resp.input.ext) =>
              /\ resp.calls = 0
              /\ IF resp.outcome \in {"TempFileError", "SaveError"}
                 THEN resp.status = 500
                 ELSE resp.status = 400 /\ resp.outcome = "UnsupportedType"
        /\ (resp.input.ex.kind = "text" /\ WhitespaceOnly(resp.input.ex.text)) =>
              /\ resp.status = 400
              /\ resp.outcome = "EmptyExtraction"
              /\ resp.calls = 0

\* a whitespace-only, non-empty extraction was refused without an oracle call
C1_Witness ==
    /\ resp.ep = "analyze"
    /\ resp.outcome = "EmptyExtraction"
    /\ SupportedExt(resp.input.ext)
    /\ resp.input.ex.text # <<>>
    /\ resp.calls = 0

\* ------------------------------------------------------------------ C2
\* C2: whenever a POST /analyze request completes, on every outcome, the
\* temporary file it created for the upload no longer exists.
C2_TempFileRemoved == [][AnalyzeCompletes => resp'.tmp \notin fs']_vars

\* ------------------------------------------------------------------ C3
\* C3: whenever a POST /download-pdf or /download-docx request completes,
\* with the document rendered and streamed or with rendering failed, the
\* temporary file it created for the document no longer exists.
C3_DownloadFileRemoved ==
    [][(/\ Completes
        /\ resp'.ep \in {"download-pdf", "download-docx"}
        /\ resp'.outcome \in {"ok", "RenderError"})
          => resp'.tmp \notin fs']_vars

\* ------------------------------------------------------------------ C4
\* C4: the cache is insert-only: no step removes a key or changes the result
\* stored under it, and the only step that adds keys is a successful
\* /analyze completion, which adds exactly its own new result_id.
C4_InsertOnly ==
    [][/\ \A k \in DOMAIN analysis_cache :
            /\ k \in DOMAIN analysis_cache'
            /\ analysis_cache'[k] = analysis_cache[k]
       /\ DOMAIN analysis_cache' # DOMAIN analysis_cache =>
            /\ AnalyzeCompletes
            /\ resp'.status = 200
            /\ resp'.key \notin DOMAIN analysis_cache
            /\ DOMAIN analysis_cache' = DOMAIN analysis_cache \cup {resp'.key}
      ]_vars

\* two entries are cached and a request to another endpoint has run since
C4_Witness ==
    /\ Cardinality(DOMAIN analysis_cache) >= 2
    /\ resp.ep \notin {"analyze", "none"}

\* ------------------------------------------------------------------ C5
\* C5: a successful /analyze returns a result_id no earlier /analyze
\* returned, and GET /result/{id} for an id /analyze returned answers 200
\* with exactly the result returned for that id, whose raw_text_preview is
\* the first 2000 characters of that request's extracted text.
C5_DistinctAndRetrievable ==
    [][/\ (AnalyzeCompletes /\ resp'.status = 200) =>
            /\ \A i \in issued : i.id # resp'.key
            /\ resp'.body.result_id = resp'.key
       /\ (Completes /\ resp'.ep = "result") =>
            \A i \in issued :
               i.id = resp'.key =>
                  /\ resp'.status = 200
                  /\ resp'.body = i.body
                  /\ resp'.body.result_id = i.id
                  /\ FirstChars(resp'.body.raw_text_preview, i.text, 2000)
      ]_vars

\* two results were issued and the one just fetched belongs to a text longer
\* than the preview
C5_Witness ==
    /\ Cardinality(issued) >= 2
    /\ resp.ep = "result"
    /\ resp.status = 200
    /\ \E i \in issued : i.id = resp.key /\ TextLen(i.text) > 2000

\* ------------------------------------------------------------------ C6
FirstIndex(t, c) ==
    LET at == {i \in 1..Len(t) : t[i] = c}
    IN  IF at = {} THEN 0 ELSE CHOOSE i \in at : \A j \in at : i <= j

LastIndex(t, c) ==
    LET at == {i \in 1..Len(t) : t[i] = c}
    IN  IF at = {} THEN 0 ELSE CHOOSE i \in at : \A j \in at : i >= j

\* C6: for every LLM output the candidate is the text from its first "{" to
\* its last "}"; without a "{" followed later by a "}" the request fails with
\* NoJsonFound, with a candidate that is not JSON it fails with
\* MalformedJson, and otherwise the result holds the candidate's members.
C6_GreedyCandidate ==
    (resp.ep = "analyze" /\ resp.calls = 1 /\ resp.oracle.ok) =>
        LET t == resp.oracle.text
            first == FirstIndex(t, "{")
            last == LastIndex(t, "}")
            candidate == SubSeq(t, first, last)
        IN  IF first = 0 \/ last < first
            THEN resp.outcome = "NoJsonFound"
            ELSE IF ~JsonValid(candidate)
            THEN resp.outcome = "MalformedJson"
            ELSE /\ resp.outcome = "ok"
                 /\ DOMAIN resp.body =
                       DOMAIN JsonLoads(candidate) \cup {"raw_text_preview", "result_id"}
                 /\ \A k \in DOMAIN JsonLoads(candidate) :
                       resp.body[k] = JsonLoads(candidate)[k]

\* the output holds a JSON object followed by a stray "}", so the greedy
\* candidate is rejected although the brace-balanced one would parse
C6_Witness ==
    /\ resp.ep = "analyze"
    /\ resp.oracle.ok
    /\ resp.outcome = "MalformedJson"
    /\ LET t == resp.oracle.text
           first == FirstIndex(t, "{")
           close == FirstIndex(t, "}")
       IN  /\ first > 0
           /\ close > first
           /\ JsonValid(SubSeq(t, first, close))

\* ------------------------------------------------------------------ C7
\* C7: with handlers suspended at their awaits and /analyze and GET /result
\* requests running meanwhile, every result a successful /analyze returned
\* is stored under its own result_id, unchanged, and every result GET /result
\* returns carries a result_id equal to the key it was fetched by.
C7_ConcurrentInsertsSafe ==
    /\ \A i \in issued :
          /\ i.id \in DOMAIN analysis_cache
          /\ analysis_cache[i.id] = i.body
          /\ analysis_cache[i.id].result_id = i.id
    /\ (resp.ep = "result" /\ resp.status = 200) =>
          /\ "result_id" \in DOMAIN resp.body
          /\ resp.body.result_id = resp.key

\* /analyze inserted while another handler was suspended, and a GET fetched
\* the entry while that handler was still suspended
C7_Witness ==
    /\ pending # {}
    /\ resp.ep = "result"
    /\ resp.status = 200
    /\ \E i \in issued : i.inflight >= 1 /\ i.id = resp.key

\* ------------------------------------------------------------------ C8
\* C8: once startup has left the mail configuration unset, no step sets it,
\* no POST /contact handler reaches the mail transport, and every POST
\* /contact is answered with the error redirect without a call to it.
C8_MailDisabled ==
    [][(started /\ mail_config = "None") =>
          /\ mail_config' = "None"
          /\ \A r \in pending' : r.ep # "contact"
          /\ (Completes /\ resp'.ep = "contact") =>
                /\ resp'.status = 303
                /\ resp'.body.location = "/?contact_status=error#contact-section"
                /\ resp'.calls = 0
      ]_vars

\* a contact request was refused while the configuration was unset
C8_Witness ==
    /\ started
    /\ mail_config = "None"
    /\ resp.ep = "contact"
    /\ resp.calls = 0

\* ------------------------------------------------------------------ C9
\* the text with every run of n backquotes cut down to n mod 3 of them
RECURSIVE RunsMod3(_, _)
RunsMod3(s, n) ==
    IF s = <<>> THEN [i \in 1..(n % 3) |-> "bq"]
    ELSE IF s[1] = "bq" THEN RunsMod3(Tail(s), n + 1)
    ELSE [i \in 1..(n % 3) |-> "bq"] \o <<s[1]>> \o RunsMod3(Tail(s), 0)

HasFence(s) == \E i \in 1..(Len(s) - 2) : SubSeq(s, i, i + 2) = <<"bq", "bq", "bq">>

\* C9: POST /rewrite always answers 200 after at most one oracle call; when
\* the oracle or another step fails optimized_text begins with "Error: ",
\* and when the oracle succeeds it is the oracle's text without any code
\* fence.
C9_RewriteDegrades ==
    resp.ep = "rewrite" =>
        /\ resp.status = 200
        /\ resp.calls <= 1
        /\ IF resp.calls = 1 /\ resp.oracle.ok
           THEN /\ ~HasFence(resp.body.optimized_text)
                /\ resp.body.optimized_text = RunsMod3(resp.oracle.text, 0)
           ELSE /\ Len(resp.body.optimized_text) >= 1
                /\ resp.body.optimized_text[1] = "Error: "

\* a fence was removed from a run of more than three backquotes
C9_Witness ==
    /\ resp.ep = "rewrite"
    /\ resp.calls = 1
    /\ resp.oracle.ok
    /\ Len(resp.oracle.text) >= Len(resp.body.optimized_text) + 3
    /\ \E i \in 1..Len(resp.body.optimized_text) : resp.body.optimized_text[i] = "bq"

\* ----------------------------------------------------------------- C10
\* C10: a /analyze request that completes without success leaves the cache
\* as it was, and the cache always holds as many entries as /analyze
\* requests have succeeded.
C10_FailureLeavesCache ==
    [][/\ (AnalyzeCompletes /\ resp'.status # 200) => analysis_cache' = analysis_cache
       /\ Cardinality(DOMAIN analysis_cache') = Cardinality(issued')
      ]_vars

\* a request failed on malformed JSON while the cache already held an entry
C10_Witness ==
    /\ resp.ep = "analyze"
    /\ resp.outcome = "MalformedJson"
    /\ analysis_cache # EmptyDict

====
